---- MODULE Spec2Model ----
(***************************************************************************)
(* Model of tests-e2e/erc20_balances.py: the selector / address helpers,   *)
(* the interface initializer, the EVM call builder and the module-level    *)
(* script that runs them against a node.                                   *)
(*                                                                         *)
(* Byte strings are sequences of 0..255; text is a sequence of ASCII       *)
(* codes.  Python integers are unbounded: they are kept as little-endian   *)
(* sequences of base-65536 limbs without trailing zero limbs.              *)
(***************************************************************************)
EXTENDS Integers, Sequences, FiniteSets, TLC

(***************************************************************************)
(* eth_utils.keccak: Keccak-256 (rate 136 bytes, padding 0x01 .. 0x80).    *)
(* A 64-bit lane is the set of the positions of its 1 bits; the state is   *)
(* five rows (y) of five lanes (x).                                        *)
(***************************************************************************)
Pow2(k) == IF k = 0 THEN 1 ELSE IF k = 1 THEN 2 ELSE IF k = 2 THEN 4
           ELSE IF k = 3 THEN 8 ELSE IF k = 4 THEN 16 ELSE IF k = 5 THEN 32
           ELSE IF k = 6 THEN 64 ELSE 128

BitOf(b, j) == (b \div Pow2(j)) % 2 = 1

KeccakRate == 136

RhoOffsets ==
  << <<0, 36, 3, 41, 18>>,
     <<1, 44, 10, 45, 2>>,
     <<62, 6, 43, 15, 61>>,
     <<28, 55, 25, 21, 56>>,
     <<27, 20, 39, 8, 14>> >>

RoundConstants ==
  << {0}, {1, 7, 15}, {1, 3, 7, 15, 63}, {15, 31, 63}, {0, 1, 3, 7, 15},
     {0, 31}, {0, 7, 15, 31, 63}, {0, 3, 15, 63}, {1, 3, 7}, {3, 7},
     {0, 3, 15, 31}, {1, 3, 31}, {0, 1, 3, 7, 15, 31}, {0, 1, 3, 7, 63},
     {0, 3, 7, 15, 63}, {0, 1, 15, 63}, {1, 15, 63}, {7, 63}, {1, 3, 15},
     {1, 3, 31, 63}, {0, 7, 15, 31, 63}, {7, 15, 63}, {0, 31},
     {3, 15, 31, 63} >>

Xor(a, b) == (a \ b) \cup (b \ a)

Rotl(a, r) == IF r = 0 THEN a ELSE {(z + r) % 64 : z \in a}

Lane(A, x, y) == A[y + 1][x + 1]

\* the 5 x 5 lanes of f, a function of (x, y), as rows of lanes
Lanes(f) ==
  << <<f[0, 0], f[1, 0], f[2, 0], f[3, 0], f[4, 0]>>,
     <<f[0, 1], f[1, 1], f[2, 1], f[3, 1], f[4, 1]>>,
     <<f[0, 2], f[1, 2], f[2, 2], f[3, 2], f[4, 2]>>,
     <<f[0, 3], f[1, 3], f[2, 3], f[3, 3], f[4, 3]>>,
     <<f[0, 4], f[1, 4], f[2, 4], f[3, 4], f[4, 4]>> >>

ZeroState == Lanes([x \in 0..4, y \in 0..4 |-> {}])

Theta(A) ==
  LET Col(x) == Xor(Xor(Xor(Xor(A[1][x + 1], A[2][x + 1]), A[3][x + 1]),
                        A[4][x + 1]), A[5][x + 1])
      C == <<Col(0), Col(1), Col(2), Col(3), Col(4)>>
      Dx(x) == Xor(C[((x + 4) % 5) + 1], Rotl(C[((x + 1) % 5) + 1], 1))
      D == <<Dx(0), Dx(1), Dx(2), Dx(3), Dx(4)>>
  IN  Lanes([x \in 0..4, y \in 0..4 |-> Xor(Lane(A, x, y), D[x + 1])])

\* B[y][2x+3y] = rot(A[x][y], r[x][y]): lane (X, Y) of the result comes from
\* lane (x, y) = ((X + 3Y) mod 5, X) of A.
RhoPi(A) ==
  Lanes([X \in 0..4, Y \in 0..4 |->
           Rotl(Lane(A, (X + 3 * Y) % 5, X),
                RhoOffsets[((X + 3 * Y) % 5) + 1][X + 1])])

Chi(A) ==
  Lanes([x \in 0..4, y \in 0..4 |->
           Xor(Lane(A, x, y),
               Lane(A, (x + 2) % 5, y) \ Lane(A, (x + 1) % 5, y))])

Iota(A, r) ==
  Lanes([x \in 0..4, y \in 0..4 |->
           IF x = 0 /\ y = 0 THEN Xor(Lane(A, 0, 0), RoundConstants[r])
           ELSE Lane(A, x, y)])

\* The 24 rounds of Keccak-f[1600].  Len(A) is read first so that each round's
\* state is computed before the next round starts.
RECURSIVE KeccakF(_, _)
KeccakF(A, r) ==
  IF Len(A) # 5 \/ r > 24 THEN A
  ELSE KeccakF(Iota(Chi(RhoPi(Theta(A))), r), r + 1)

KeccakPad(msg) ==
  LET n == KeccakRate - (Len(msg) % KeccakRate)
  IN  msg \o [k \in 1..n |->
                (IF k = 1 THEN 1 ELSE 0) + (IF k = n THEN 128 ELSE 0)]

\* lane k = x + 5y of a block: its bytes 8k .. 8k+7, little-endian
BlockLane(blk, k) ==
  IF 8 * k >= KeccakRate THEN {}
  ELSE {z \in 0..63 : BitOf(blk[8 * k + (z \div 8) + 1], z % 8)}

RECURSIVE Absorb(_, _)
Absorb(A, m) ==
  IF m = <<>> THEN A
  ELSE LET blk == SubSeq(m, 1, KeccakRate)
       IN  Absorb(KeccakF(Lanes([x \in 0..4, y \in 0..4 |->
                                   Xor(Lane(A, x, y),
                                       BlockLane(blk, x + 5 * y))]),
                          1),
                  SubSeq(m, KeccakRate + 1, Len(m)))

LaneByte(a, j) ==
  (IF (8 * j) \in a THEN 1 ELSE 0) + (IF (8 * j + 1) \in a THEN 2 ELSE 0)
  + (IF (8 * j + 2) \in a THEN 4 ELSE 0) + (IF (8 * j + 3) \in a THEN 8 ELSE 0)
  + (IF (8 * j + 4) \in a THEN 16 ELSE 0) + (IF (8 * j + 5) \in a THEN 32 ELSE 0)
  + (IF (8 * j + 6) \in a THEN 64 ELSE 0) + (IF (8 * j + 7) \in a THEN 128 ELSE 0)

keccak(text) ==
  LET A == Absorb(ZeroState, KeccakPad(text))
  IN  [k \in 1..32 |-> LaneByte(Lane(A, (k - 1) \div 8, 0), (k - 1) % 8)] \o <<>>

(***************************************************************************)
(* Text and byte helpers (Python str / bytes methods).                     *)
(***************************************************************************)
NoRaise == "none"

Ok(v) == [raised |-> NoRaise, value |-> v]

Raise(e) == [raised |-> e, value |-> <<>>]

\* "%x" of one nibble, lowercase
HexChar(d) == IF d < 10 THEN 48 + d ELSE 87 + d

IsHexChar(c) == c \in 48..57 \/ c \in 97..102 \/ c \in 65..70

NibbleOf(c) == IF c \in 48..57 THEN c - 48
               ELSE IF c \in 97..102 THEN c - 87 ELSE c - 55

\* str.lower / str.upper
lower(s) == [k \in 1..Len(s) |-> IF s[k] \in 65..90 THEN s[k] + 32 ELSE s[k]] \o <<>>

upper(c) == IF c \in 97..122 THEN c - 32 ELSE c

\* bytes.hex(): two lowercase hex digits per byte, no prefix
BytesHex(b) ==
  [k \in 1..(2 * Len(b)) |->
     HexChar(IF k % 2 = 1 THEN b[(k + 1) \div 2] \div 16
             ELSE b[k \div 2] % 16)] \o <<>>

\* bytes.fromhex() of an even-length hex text
BytesFromHex(h) ==
  [k \in 1..(Len(h) \div 2) |->
     16 * NibbleOf(h[2 * k - 1]) + NibbleOf(h[2 * k])] \o <<>>

\* int.to_bytes(n, "big") and int.to_bytes(n, "little")
RECURSIVE BytesBE(_, _)
BytesBE(v, n) == IF n = 0 THEN <<>> ELSE BytesBE(v \div 256, n - 1) \o <<v % 256>>

RECURSIVE BytesLE(_, _)
BytesLE(v, n) == IF n = 0 THEN <<>> ELSE <<v % 256>> \o BytesLE(v \div 256, n - 1)

(***************************************************************************)
(* func_selector and encode_input.                                         *)
(***************************************************************************)
\* variant: the last four bytes of the hash instead of the first four
func_selector_last4(text) == SubSeq(keccak(text), 29, 32)

func_selector(text) == SubSeq(keccak(text), 1, 4)

\* eth_abi.encode for the static types uint256 and uint8: one 32-byte
\* big-endian word per argument; a length mismatch or a value out of the
\* type's range raises.
AbiOutOfRange(type, v) == v < 0 \/ (type = "uint8" /\ v > 255)

RECURSIVE AbiWords(_, _)
AbiWords(types, args) ==
  IF types = <<>> THEN <<>>
  ELSE BytesBE(Head(args), 32) \o AbiWords(Tail(types), Tail(args))

\* variant: an empty argument list still yields one (zero) word
encode_padded(types, args) ==
  IF Len(types) # Len(args) THEN Raise("ValueOutOfBounds")
  ELSE IF \E k \in 1..Len(types) : AbiOutOfRange(types[k], args[k])
       THEN Raise("ValueOutOfBounds")
  ELSE IF types = <<>> THEN Ok(BytesBE(0, 32))
  ELSE Ok(AbiWords(types, args))

encode(types, args) ==
  IF Len(types) # Len(args) THEN Raise("ValueOutOfBounds")
  ELSE IF \E k \in 1..Len(types) : AbiOutOfRange(types[k], args[k])
       THEN Raise("ValueOutOfBounds")
  ELSE Ok(AbiWords(types, args))

encode_input(name, types, args) ==
  LET function_signature == func_selector(name)
      encoded == encode(types, args)
  IN  IF encoded.raised # NoRaise THEN encoded
      ELSE Ok(function_signature \o encoded.value)

(***************************************************************************)
(* num_to_address.  num is a Python int >= 0: a little-endian sequence of  *)
(* base-65536 limbs whose last limb is not 0 (<<>> is zero).               *)
(***************************************************************************)
Pow16(k) == IF k = 0 THEN 1 ELSE IF k = 1 THEN 16 ELSE IF k = 2 THEN 256 ELSE 4096

\* nibble k (k = 0 is the least significant) of num
Nibble(num, k) ==
  IF k \div 4 >= Len(num) THEN 0 ELSE (num[(k \div 4) + 1] \div Pow16(k % 4)) % 16

RECURSIVE StripLeadingZeros(_)
StripLeadingZeros(d) ==
  IF Len(d) > 1 /\ Head(d) = 48 THEN StripLeadingZeros(Tail(d)) ELSE d

\* hex(num): "0x" and the digits of num, without leading zeros ("0x0" for 0)
hex(num) ==
  LET n == IF Len(num) = 0 THEN 1 ELSE 4 * Len(num)
  IN  <<48, 120>> \o
      StripLeadingZeros([k \in 1..n |-> HexChar(Nibble(num, n - k))] \o <<>>)

\* str.zfill(width): '0's on the left up to width, after a leading sign
zfill(s, width) ==
  IF Len(s) >= width THEN s
  ELSE LET zeros == [k \in 1..(width - Len(s)) |-> 48]
       IN  IF Len(s) > 0 /\ s[1] \in {43, 45}
           THEN <<s[1]>> \o zeros \o Tail(s)
           ELSE zeros \o s

Has0xPrefix(s) == Len(s) >= 2 /\ s[1] = 48 /\ s[2] \in {120, 88}

remove_0x_prefix(s) == IF Has0xPrefix(s) THEN SubSeq(s, 3, Len(s)) ELSE s

add_0x_prefix(s) == IF Has0xPrefix(s) THEN s ELSE <<48, 120>> \o s

is_hexstr(s) == \A k \in 1..Len(remove_0x_prefix(s)) : IsHexChar(remove_0x_prefix(s)[k])

\* eth_utils.to_normalized_address: the lowercased, 0x-prefixed text, which
\* must be 40 hex digits long
to_normalized_address(value) ==
  IF remove_0x_prefix(value) # <<>> /\ ~is_hexstr(value) THEN Raise("ValueError")
  ELSE LET hex_address == lower(add_0x_prefix(lower(value)))
       IN  IF is_hexstr(hex_address) /\ Len(remove_0x_prefix(hex_address)) = 40
           THEN Ok(hex_address)
           ELSE Raise("ValueError")

\* eth_utils.to_checksum_address (EIP-55): digit i is uppercased when nibble
\* i of keccak(text = the 40 lowercase digits) is above 7
to_checksum_address(value) ==
  LET norm == to_normalized_address(value)
  IN  IF norm.raised # NoRaise THEN norm
      ELSE LET norm_address == norm.value
               address_hash == BytesHex(keccak(remove_0x_prefix(norm_address)))
           IN  Ok(<<48, 120>> \o
                  [i \in 1..40 |->
                     IF NibbleOf(address_hash[i]) > 7
                     THEN upper(norm_address[i + 2])
                     ELSE norm_address[i + 2]])

\* variant: the "0x" of hex(num) is not removed before padding
num_to_address_keeps_prefix(num) ==
  LET address_hex == hex(num)
      address_hex_padded == zfill(address_hex, 40)
  IN  to_checksum_address(address_hex_padded)

\* variant: only the last 40 digits of a longer rendering are kept
num_to_address_wrapping(num) ==
  LET address_hex == SubSeq(hex(num), 3, Len(hex(num)))
      address_hex_padded == zfill(address_hex, 40)
  IN  to_checksum_address(SubSeq(address_hex_padded,
                                 Len(address_hex_padded) - 39,
                                 Len(address_hex_padded)))

num_to_address(num) ==
  LET address_hex == SubSeq(hex(num), 3, Len(hex(num)))
      address_hex_padded == zfill(address_hex, 40)
  IN  to_checksum_address(address_hex_padded)

(***************************************************************************)
(* Python values handed to the SCALE encoder.                              *)
(***************************************************************************)
PyInt(n) == [py |-> "int", v |-> n]
PyStr(t) == [py |-> "str", v |-> t]
PyList(l) == [py |-> "list", v |-> l]
PyNone == [py |-> "NoneType", v |-> <<>>]

(***************************************************************************)
(* Keypair.create_from_private_key(.., crypto_type = ECDSA): public_key is *)
(* the 20-byte Ethereum address of the key.  The script's key is the       *)
(* development account Alith.                                              *)
(***************************************************************************)
AlithPrivateKey ==
  << 95, 185, 45, 110, 152, 136, 79, 118, 222, 70, 143, 163,
     246, 39, 143, 136, 7, 196, 139, 235, 193, 53, 149, 212,
     90, 245, 189, 196, 218, 112, 33, 51 >>

AlithAddress ==
  << 242, 79, 243, 169, 207, 4, 199, 29, 188, 148, 208, 181,
     102, 247, 162, 123, 148, 86, 108, 172 >>

ZeroBytes(n) == [k \in 1..n |-> 0] \o <<>>

\* secp256k1 public-key derivation is tabulated for the script's key only
EcdsaAddress(private_key) ==
  IF private_key = AlithPrivateKey THEN AlithAddress ELSE ZeroBytes(20)

create_from_private_key(private_key, crypto_type) ==
  [private_key |-> private_key,
   public_key |-> EcdsaAddress(private_key),
   crypto_type |-> crypto_type]

(***************************************************************************)
(* The type registry of the interface's runtime configuration: a mapping   *)
(* from type name to an alias, a struct layout or a built-in codec.        *)
(***************************************************************************)
Alias(t) == [type |-> "alias", target |-> t]
Struct(m) == [type |-> "struct", type_mapping |-> m]
Builtin(c) == [type |-> "builtin", codec |-> c]

\* variant: the dictionary without its AccountId entry
TypeOverridesWithoutAccountId ==
  [Address |-> Alias("AccountId"),
   LookupSource |-> Alias("AccountId"),
   Account |-> Struct(<< <<"nonce", "U256">>, <<"balance", "U256">> >>),
   Transaction |-> Struct(<< <<"nonce", "U256">>,
                             <<"gas_price", "U256">>,
                             <<"gas_limit", "U256">>,
                             <<"action", "EthTransactionAction">>,
                             <<"value", "U256">>,
                             <<"input", "Bytes">>,
                             <<"signature", "EthTransactionSignature">> >>),
   Signature |-> Struct(<< <<"v", "u64">>, <<"r", "H256">>, <<"s", "H256">> >>)]

\* the dictionary init_interface passes to update_type_registry ("types")
TypeOverrides ==
  [Address |-> Alias("AccountId"),
   LookupSource |-> Alias("AccountId"),
   Account |-> Struct(<< <<"nonce", "U256">>, <<"balance", "U256">> >>),
   AccountId |-> Alias("H160"),
   Transaction |-> Struct(<< <<"nonce", "U256">>,
                             <<"gas_price", "U256">>,
                             <<"gas_limit", "U256">>,
                             <<"action", "EthTransactionAction">>,
                             <<"value", "U256">>,
                             <<"input", "Bytes">>,
                             <<"signature", "EthTransactionSignature">> >>),
   Signature |-> Struct(<< <<"v", "u64">>, <<"r", "H256">>, <<"s", "H256">> >>)]

\* the entries of upd replace or extend those of reg; an alias is kept as
\* the name it points to and is followed when the type is looked up
update_type_registry(reg, upd) ==
  [n \in (DOMAIN reg) \cup (DOMAIN upd) |->
     IF n \in DOMAIN upd THEN upd[n] ELSE reg[n]]

\* the codecs every registry holds before any preset or override
BuiltinTypes ==
  [H160 |-> Builtin("H160"), H256 |-> Builtin("H256"),
   U256 |-> Builtin("U256"), u64 |-> Builtin("u64"),
   Bytes |-> Builtin("Bytes"), Call |-> Builtin("GenericCall"),
   GenericAccountId |-> Builtin("GenericAccountId"),
   MultiAddress |-> Builtin("GenericMultiAddress")]

\* what the type-registry preset of the connected chain says about account
\* types (use_remote_preset = True): Substrate's default, an Ethereum-style
\* chain's, or nothing
Presets ==
  { [AccountId |-> Alias("GenericAccountId"),
     Address |-> Alias("MultiAddress"),
     LookupSource |-> Alias("MultiAddress")],
    [AccountId |-> Alias("H160"),
     Address |-> Alias("AccountId"),
     LookupSource |-> Alias("AccountId"),
     Signature |-> Alias("H256")],
    [Balance |-> Alias("U256")] }

\* the name a type name stands for, following aliases (at most fuel of them)
RECURSIVE ResolveType(_, _, _)
ResolveType(reg, name, fuel) ==
  IF fuel > 0 /\ name \in DOMAIN reg /\ reg[name].type = "alias"
  THEN ResolveType(reg, reg[name].target, fuel - 1)
  ELSE name

Resolve(reg, name) == ResolveType(reg, name, Cardinality(DOMAIN reg))

(***************************************************************************)
(* Runtime metadata of the node: pallets with their indices and calls.     *)
(***************************************************************************)
Arg(n, t) == [name |-> n, type |-> t]

\* pallet_evm::call with EIP-1559 fees
EvmCallArgs ==
  << Arg("source", "H160"), Arg("target", "H160"), Arg("input", "Vec<u8>"),
     Arg("value", "U256"), Arg("gas_limit", "u64"),
     Arg("max_fee_per_gas", "U256"),
     Arg("max_priority_fee_per_gas", "Option<U256>"),
     Arg("nonce", "Option<U256>"),
     Arg("access_list", "Vec<(H160, Vec<H256>)>") >>

\* pallet_evm::call before EIP-1559
EvmCallArgsLegacy ==
  << Arg("source", "H160"), Arg("target", "H160"), Arg("input", "Vec<u8>"),
     Arg("value", "U256"), Arg("gas_limit", "u64"), Arg("gas_price", "U256"),
     Arg("nonce", "Option<U256>") >>

\* an argument type the registry has no codec for
EvmCallArgsMalformed ==
  << Arg("source", "H160"), Arg("target", "EvmAddress"),
     Arg("input", "Vec<u8>") >>

MaxPalletIndex == 3

MaxCallIndex == 1

Metadata(evm_index, call_index, args) ==
  [pallets |->
     { [name |-> "System", index |-> 0, calls |-> {}],
       [name |-> "EVM", index |-> evm_index,
        calls |-> { [name |-> "call", index |-> call_index, args |-> args] }] }]

MetadataWithoutEVM ==
  [pallets |-> { [name |-> "System", index |-> 0, calls |-> {}] }]

Metadatas ==
  { Metadata(p, c, a) : p \in 1..MaxPalletIndex, c \in 0..MaxCallIndex,
                        a \in {EvmCallArgs, EvmCallArgsLegacy, EvmCallArgsMalformed} }
  \cup {MetadataWithoutEVM}

(***************************************************************************)
(* SCALE encoding (scalecodec).                                            *)
(***************************************************************************)
\* Compact<u32> of a length
Compact(n) ==
  IF n < 64 THEN <<4 * n>>
  ELSE IF n < 16384 THEN BytesLE(4 * n + 1, 2)
  ELSE BytesLE(4 * n + 2, 4)

IsHexText(t) == \A k \in 1..Len(t) : IsHexChar(t[k])

\* H160 / H256: "0x" and 2n hex digits
EncodeHash(val, n) ==
  IF val.py = "str" /\ Len(val.v) = 2 * n + 2 /\ val.v[1] = 48 /\ val.v[2] = 120
     /\ IsHexText(SubSeq(val.v, 3, Len(val.v)))
  THEN Ok(BytesFromHex(SubSeq(val.v, 3, Len(val.v))))
  ELSE Raise("ValueError")

\* Bytes (Vec<u8>): a str starting with "0x" is hex, any other str is taken as
\* its UTF-8 text
EncodeBytes(val) ==
  IF val.py # "str" THEN Raise("ValueError")
  ELSE IF Len(val.v) >= 2 /\ val.v[1] = 48 /\ val.v[2] = 120
  THEN IF IsHexText(SubSeq(val.v, 3, Len(val.v))) /\ Len(val.v) % 2 = 0
       THEN Ok(Compact((Len(val.v) - 2) \div 2)
               \o BytesFromHex(SubSeq(val.v, 3, Len(val.v))))
       ELSE Raise("ValueError")
  ELSE Ok(Compact(Len(val.v)) \o val.v)

\* U256 / u64: little-endian, n bytes
EncodeUint(val, n) ==
  IF val.py = "int" /\ val.v >= 0 THEN Ok(BytesLE(val.v, n))
  ELSE Raise("ValueError")

EncodeOptionU256(val) ==
  IF val.py = "NoneType" THEN Ok(<<0>>)
  ELSE LET inner == EncodeUint(val, 32)
       IN  IF inner.raised # NoRaise THEN inner ELSE Ok(<<1>> \o inner.value)

\* Vec<(H160, Vec<H256>)>: the script only ever passes the empty list
EncodeAccessList(val) ==
  IF val.py = "list" /\ val.v = <<>> THEN Ok(Compact(0))
  ELSE Raise("ValueError")

\* create_scale_object(type).encode(val) under registry reg
ScaleEncode(reg, type, val) ==
  LET t == Resolve(reg, type)
  IN  IF t = "H160" THEN EncodeHash(val, 20)
      ELSE IF t = "H256" THEN EncodeHash(val, 32)
      ELSE IF t \in {"Vec<u8>", "Bytes"} THEN EncodeBytes(val)
      ELSE IF t = "U256" THEN EncodeUint(val, 32)
      ELSE IF t = "u64" THEN EncodeUint(val, 8)
      ELSE IF t = "Option<U256>" THEN EncodeOptionU256(val)
      ELSE IF t = "Vec<(H160, Vec<H256>)>" THEN EncodeAccessList(val)
      ELSE Raise("NotImplementedError")

RECURSIVE EncodeArgs(_, _, _)
EncodeArgs(reg, args, call_args) ==
  IF args = <<>> THEN Ok(<<>>)
  ELSE IF Head(args).name \notin DOMAIN call_args THEN Raise("ValueError")
  ELSE LET first == ScaleEncode(reg, Head(args).type, call_args[Head(args).name])
       IN  IF first.raised # NoRaise THEN first
           ELSE LET rest == EncodeArgs(reg, Tail(args), call_args)
                IN  IF rest.raised # NoRaise THEN rest
                    ELSE Ok(first.value \o rest.value)

\* GenericCall.encode: pallet index, call index, then each argument the
\* metadata lists for the call
CallEncode(reg, meta, value) ==
  LET found == {<<p, c>> \in UNION {{p} \X p.calls : p \in meta.pallets} :
                  p.name = value.call_module /\ c.name = value.call_function}
  IN  IF found = {} THEN Raise("ValueError")
      ELSE LET pc0 == CHOOSE x \in found : TRUE
               body == EncodeArgs(reg, pc0[2].args, value.call_args)
           IN  IF body.raised # NoRaise THEN body
               ELSE Ok(<<pc0[1].index, pc0[2].index>> \o body.value)

(***************************************************************************)
(* init_interface and call_contract.  A function that talks to the node    *)
(* returns, besides its value or the exception it raised, the requests it  *)
(* sent (rpc), the values it handed to Call.encode (encoded), the signed   *)
(* extrinsics it created (signed) and the lines it printed (printed).      *)
(***************************************************************************)
Effects(res, rpc, encoded, signed, printed) ==
  [raised |-> res.raised, value |-> res.value, rpc |-> rpc,
   encoded |-> encoded, signed |-> signed, printed |-> printed]

NodeUrl == "ws://127.0.0.1:9944"

\* the requests of SubstrateInterface.init_runtime: all three on the first
\* call, the first two once the runtime is cached
InitRuntimeRequests(cached) ==
  IF cached THEN <<"chain_getHead", "state_getRuntimeVersion">>
  ELSE <<"chain_getHead", "state_getRuntimeVersion", "state_getMetadata">>

\* variant: a refused connection is tried a second time before giving up
init_interface_retrying(node) ==
  IF ~node.accepts
  THEN Effects(Raise("ConnectionRefusedError"), <<"connect", "connect">>,
               <<>>, <<>>, <<>>)
  ELSE IF ~node.answers
  THEN Effects(Raise("SubstrateRequestException"),
               <<"connect">> \o InitRuntimeRequests(FALSE), <<>>, <<>>, <<>>)
  ELSE Effects(Ok([url |-> NodeUrl,
                   metadata |-> node.metadata,
                   type_registry |->
                     update_type_registry(
                       update_type_registry(BuiltinTypes, node.preset),
                       TypeOverrides)]),
               <<"connect">> \o InitRuntimeRequests(FALSE), <<>>, <<>>, <<>>)

\* node: whether it accepts the connection, whether it answers the runtime
\* requests, its metadata and its chain's type-registry preset
init_interface(node) ==
  IF ~node.accepts
  THEN Effects(Raise("ConnectionRefusedError"), <<"connect">>, <<>>, <<>>, <<>>)
  ELSE IF ~node.answers
  THEN Effects(Raise("SubstrateRequestException"),
               <<"connect">> \o InitRuntimeRequests(FALSE), <<>>, <<>>, <<>>)
  ELSE LET substrate ==
             [url |-> NodeUrl,
              metadata |-> node.metadata,
              type_registry |->
                update_type_registry(
                  update_type_registry(BuiltinTypes, node.preset),
                  TypeOverrides)]
       IN  Effects(Ok(substrate), <<"connect">> \o InitRuntimeRequests(FALSE),
                   <<>>, <<>>, <<>>)

\* variant: the dictionary of the commented-out compose_call, whose
\* max_priority_fee_per_gas is the pair (None, 0)
CallDescriptorPriorityFee(keypair, contract_addr, inp) ==
  [call_module |-> "EVM",
   call_function |-> "call",
   call_args |->
     [source |-> PyStr(<<48, 120>> \o BytesHex(keypair.public_key)),
      target |-> PyStr(contract_addr),
      input |-> PyStr(BytesHex(inp)),
      value |-> PyInt(0),
      gas_limit |-> PyInt(10000000),
      max_fee_per_gas |-> PyInt(10000000),
      max_priority_fee_per_gas |-> PyList(<<PyNone, PyInt(0)>>),
      nonce |-> PyNone,
      access_list |-> PyList(<<>>)]]

\* the dictionary call_contract hands to call.encode
CallDescriptor(keypair, contract_addr, inp) ==
  [call_module |-> "EVM",
   call_function |-> "call",
   call_args |->
     [source |-> PyStr(<<48, 120>> \o BytesHex(keypair.public_key)),
      target |-> PyStr(contract_addr),
      input |-> PyStr(BytesHex(inp)),
      value |-> PyInt(0),
      gas_limit |-> PyInt(10000000),
      max_fee_per_gas |-> PyInt(10000000),
      max_priority_fee_per_gas |-> PyNone,
      nonce |-> PyNone,
      access_list |-> PyList(<<>>)]]

\* print(cc): str() of the ScaleBytes, "0x" and its hex digits
ScaleBytesStr(data) == <<48, 120>> \o BytesHex(data)

\* variant: the commented-out alternative, which composes the call, signs it
\* and submits the extrinsic
call_contract_submitting(iface, keypair, contract_addr, inp, answers) ==
  IF ~answers
  THEN Effects(Raise("SubstrateRequestException"), InitRuntimeRequests(TRUE),
               <<>>, <<>>, <<>>)
  ELSE Effects(Ok(<<>>),
               InitRuntimeRequests(TRUE)
                 \o <<"system_accountNextIndex", "author_submitAndWatchExtrinsic">>,
               <<>>,
               <<[call |-> [call_module |-> "EVM", call_function |-> "call"],
                  signer |-> keypair.public_key]>>,
               <<>>)

\* answers: whether the node answers get_metadata's requests
call_contract(iface, keypair, contract_addr, inp, answers) ==
  IF ~answers
  THEN Effects(Raise("SubstrateRequestException"), InitRuntimeRequests(TRUE),
               <<>>, <<>>, <<>>)
  ELSE LET meta == iface.metadata
           descriptor == CallDescriptor(keypair, contract_addr, inp)
           cc == IF Resolve(iface.type_registry, "Call") = "Call"
                    /\ "Call" \in DOMAIN iface.type_registry
                 THEN CallEncode(iface.type_registry, meta, descriptor)
                 ELSE Raise("NotImplementedError")
       IN  IF cc.raised # NoRaise
           THEN Effects(cc, InitRuntimeRequests(TRUE), <<descriptor>>, <<>>, <<>>)
           ELSE Effects(Ok(<<>>), InitRuntimeRequests(TRUE), <<descriptor>>, <<>>,
                        <<ScaleBytesStr(cc.value)>>)

(***************************************************************************)
(* State.  The script's module-level names are unbound until assigned.     *)
(***************************************************************************)
VARIABLES
  pc,                \* the statement the script is at
  CONTRACT_ADDRESS,  \* module-level names of the script
  interface,
  alith_keypair,
  input,
  raised,            \* the uncaught exception, if any
  stdout,            \* the lines printed
  rpc_log,           \* the requests sent to the node
  encode_log,        \* the values handed to Call.encode
  extrinsics,        \* the signed extrinsics created
  fcall,             \* a single function applied to chosen arguments,
  fret               \* and what it returned

vars == <<pc, CONTRACT_ADDRESS, interface, alith_keypair, input, raised,
          stdout, rpc_log, encode_log, extrinsics, fcall, fret>>

globals == <<CONTRACT_ADDRESS, interface, alith_keypair, input>>

effects == <<stdout, rpc_log, encode_log, extrinsics>>

Unbound == [bound |-> FALSE]

Bound(v) == [bound |-> TRUE, value |-> v]

NoCall == [fn |-> "none"]

NoReturn == [raised |-> "pending"]

Fresh ==
  /\ CONTRACT_ADDRESS = Unbound
  /\ interface = Unbound
  /\ alith_keypair = Unbound
  /\ input = Unbound
  /\ raised = NoRaise
  /\ stdout = <<>>
  /\ rpc_log = <<>>
  /\ encode_log = <<>>
  /\ extrinsics = <<>>
  /\ fret = NoReturn

\* what a call that talked to the node leaves behind
Apply(e) ==
  /\ stdout' = stdout \o e.printed
  /\ rpc_log' = rpc_log \o e.rpc
  /\ encode_log' = encode_log \o e.encoded
  /\ extrinsics' = extrinsics \o e.signed

\* an exception nothing catches ends the script
Terminate(e) ==
  /\ pc' = "terminated"
  /\ raised' = e

(***************************************************************************)
(* The script, statement by statement.                                     *)
(***************************************************************************)
Init ==
  /\ pc = "line136"
  /\ fcall = NoCall
  /\ Fresh

NodeAnswers ==
  [accepts : BOOLEAN, answers : BOOLEAN, metadata : Metadatas, preset : Presets]

\* CONTRACT_ADDRESS = num_to_address(2050)
Line136 ==
  /\ pc = "line136"
  /\ \E r \in {num_to_address(<<2050>>)} :
         IF r.raised # NoRaise
         THEN Terminate(r.raised) /\ UNCHANGED CONTRACT_ADDRESS
         ELSE /\ CONTRACT_ADDRESS' = Bound(r.value)
              /\ pc' = "line138"
              /\ UNCHANGED raised
  /\ UNCHANGED <<interface, alith_keypair, input, effects, fcall, fret>>

\* variant: the interface is initialized as the script's first statement
Line138AtStart ==
  /\ pc = "line136"
  /\ \E node \in NodeAnswers :
       \E r \in {init_interface(node)} :
         /\ Apply(r)
         /\ IF r.raised # NoRaise
            THEN Terminate(r.raised) /\ UNCHANGED interface
            ELSE /\ interface' = Bound(r.value)
                 /\ pc' = "line140"
                 /\ UNCHANGED raised
  /\ UNCHANGED <<CONTRACT_ADDRESS, alith_keypair, input, fcall, fret>>

\* interface = init_interface()
Line138 ==
  /\ pc = "line138"
  /\ \E node \in NodeAnswers :
       \E r \in {init_interface(node)} :
         /\ Apply(r)
         /\ IF r.raised # NoRaise
            THEN Terminate(r.raised) /\ UNCHANGED interface
            ELSE /\ interface' = Bound(r.value)
                 /\ pc' = "line140"
                 /\ UNCHANGED raised
  /\ UNCHANGED <<CONTRACT_ADDRESS, alith_keypair, input, fcall, fret>>

\* alith_keypair = Keypair.create_from_private_key(.., crypto_type = ECDSA)
Line140 ==
  /\ pc = "line140"
  /\ alith_keypair' = Bound(create_from_private_key(AlithPrivateKey, "ECDSA"))
  /\ pc' = "line145"
  /\ UNCHANGED <<CONTRACT_ADDRESS, interface, input, raised, effects, fcall, fret>>

\* input = encode_input("name()", [], [])
Line145 ==
  /\ pc = "line145"
  /\ \E r \in {encode_input(<<110, 97, 109, 101, 40, 41>>, <<>>, <<>>)} :
         IF r.raised # NoRaise
         THEN Terminate(r.raised) /\ UNCHANGED input
         ELSE /\ input' = Bound(r.value)
              /\ pc' = "line149"
              /\ UNCHANGED raised
  /\ UNCHANGED <<CONTRACT_ADDRESS, interface, alith_keypair, effects, fcall, fret>>

\* call_contract(interface, alith_keypair, CONTRACT_ADDRESS, input); the
\* script ends after it
Line149 ==
  /\ pc = "line149"
  /\ \E answers \in BOOLEAN :
       \E r \in {call_contract(interface.value, alith_keypair.value,
                                CONTRACT_ADDRESS.value, input.value, answers)} :
         /\ Apply(r)
         /\ IF r.raised # NoRaise
            THEN Terminate(r.raised)
            ELSE pc' = "exit" /\ UNCHANGED raised
  /\ UNCHANGED <<globals, fcall, fret>>

Next == Line136 \/ Line138 \/ Line140 \/ Line145 \/ Line149

Spec == Init /\ [][Next]_vars

(***************************************************************************)
(* The functions on their own: one call of one function, its arguments     *)
(* chosen from the sets below.                                             *)
(***************************************************************************)
MaxTextLen == 3

MaxLimbs == 12

MaxArgs == 2

TextAlphabet == {97, 40, 41}

\* "name()", "symbol()", "balanceOf(address)", and texts of one byte less
\* than, exactly and more than one Keccak block
NamedSignatures ==
  { <<110, 97, 109, 101, 40, 41>>,
    <<115, 121, 109, 98, 111, 108, 40, 41>>,
    <<98, 97, 108, 97, 110, 99, 101, 79, 102, 40, 97, 100, 100, 114, 101, 115, 115, 41>>,
    [k \in 1..(KeccakRate - 1) |-> 97] \o <<>>,
    [k \in 1..KeccakRate |-> 97] \o <<>>,
    [k \in 1..(KeccakRate + 4) |-> 97] \o <<>> }

Texts ==
  UNION {[1..n -> TextAlphabet] : n \in 0..MaxTextLen} \cup NamedSignatures

\* argument lists for eth_abi.encode: well-typed ones of every length up to
\* MaxArgs, one out of range, one of the wrong length
AbiInputs ==
  { [types |-> [k \in 1..n |-> IF k % 2 = 1 THEN "uint256" ELSE "uint8"] \o <<>>,
     args |-> [k \in 1..n |-> IF k % 2 = 1 THEN 70000 ELSE 7] \o <<>>]
      : n \in 0..MaxArgs }
  \cup { [types |-> <<"uint8">>, args |-> <<256>>],
         [types |-> <<"uint256">>, args |-> <<>>] }

TopLimbs == {1, 2050, 4096, 43981, 65535}

FillLimbs == {0, 43981, 65535}

\* Python ints: zero, and for every length up to MaxLimbs the numbers with a
\* chosen top limb and all lower limbs alike (2^160 is ten 0 limbs and a 1)
Nums ==
  {<<>>} \cup
  { [k \in 1..n |-> IF k = n THEN top ELSE fill] \o <<>>
      : n \in 1..MaxLimbs, top \in TopLimbs, fill \in FillLimbs }

Keypairs ==
  { create_from_private_key(AlithPrivateKey, "ECDSA"),
    [private_key |-> ZeroBytes(32), public_key |-> ZeroBytes(20),
     crypto_type |-> "ECDSA"],
    [private_key |-> ZeroBytes(32), public_key |-> ZeroBytes(32),
     crypto_type |-> "SR25519"] }

\* target addresses: the script's, Alith's in EIP-55 case, and one too short
ContractAddresses ==
  { <<48, 120, 48, 48, 48, 48, 48, 48, 48, 48, 48, 48, 48, 48, 48, 48, 48, 48, 48, 48, 48, 48, 48, 48, 48, 48, 48, 48, 48, 48, 48, 48, 48, 48, 48, 48, 48, 48, 48, 56, 48, 50>>,
    <<48, 120, 102, 50, 52, 70, 70, 51, 97, 57, 67, 70, 48, 52, 99, 55, 49, 68, 98, 99, 57, 52, 68, 48, 98, 53, 54, 54, 102, 55, 65, 50, 55, 66, 57, 52, 53, 54, 54, 99, 97, 99>>,
    <<48, 120, 56, 48, 50>> }

Inputs == { <<>>, <<6, 253, 222, 3>>, [k \in 1..70 |-> k] \o <<>> }

Interfaces ==
  { init_interface(node).value :
      node \in {n \in NodeAnswers : n.accepts /\ n.answers} }

InitFn ==
  /\ pc = "call"
  /\ Fresh
  /\ \/ fcall \in [fn : {"func_selector"}, text : Texts]
     \/ fcall \in [fn : {"encode_input"}, name : Texts,
                   abi : {[types |-> <<>>, args |-> <<>>]}]
     \/ fcall \in [fn : {"encode_input"}, name : NamedSignatures,
                   abi : AbiInputs]
     \/ fcall \in [fn : {"num_to_address"}, num : Nums]
     \/ fcall \in [fn : {"call_contract"}, interface : Interfaces,
                   keypair : Keypairs, contract_addr : ContractAddresses,
                   input : Inputs]

Returns(r) ==
  /\ fret' = [raised |-> r.raised, value |-> r.value]
  /\ pc' = "return"
  /\ UNCHANGED <<globals, raised, fcall>>

Call_func_selector ==
  /\ pc = "call"
  /\ fcall.fn = "func_selector"
  /\ Returns(Ok(func_selector(fcall.text)))
  /\ UNCHANGED effects

Call_encode_input ==
  /\ pc = "call"
  /\ fcall.fn = "encode_input"
  /\ Returns(encode_input(fcall.name, fcall.abi.types, fcall.abi.args))
  /\ UNCHANGED effects

Call_num_to_address ==
  /\ pc = "call"
  /\ fcall.fn = "num_to_address"
  /\ Returns(num_to_address(fcall.num))
  /\ UNCHANGED effects

Call_call_contract ==
  /\ pc = "call"
  /\ fcall.fn = "call_contract"
  /\ \E answers \in BOOLEAN :
       \E r \in {call_contract(fcall.interface, fcall.keypair,
                                fcall.contract_addr, fcall.input, answers)} :
         Apply(r) /\ Returns(r)

NextFn ==
  Call_func_selector \/ Call_encode_input \/ Call_num_to_address
  \/ Call_call_contract

SpecFn == InitFn /\ [][NextFn]_vars

(***************************************************************************)
(* Properties.                                                             *)
(***************************************************************************)
SubmitRequests == {"author_submitExtrinsic", "author_submitAndWatchExtrinsic"}

Count(log, x) == Cardinality({k \in 1..Len(log) : log[k] = x})

\* C1: in every state of a run of the script, whatever the node answered, no
\* signed extrinsic has been created and no extrinsic has been submitted to
\* the node: the call built is only handed to the encoder and printed.
C1_NeverSignedNorSubmitted ==
  /\ extrinsics = <<>>
  /\ \A k \in 1..Len(rpc_log) : rpc_log[k] \notin SubmitRequests
  /\ Len(stdout) <= Len(encode_log)

C1_Witness ==
  /\ pc = "exit"
  /\ Len(encode_log) = 1
  /\ Len(stdout) = 1
  /\ extrinsics = <<>>

\* C2: encode_input(name, [], []) returns exactly func_selector(name), four
\* bytes and nothing after them; for "name()" these are 06 fd de 03.
C2_EmptyArgsGiveSelector ==
  (pc = "return" /\ fcall.fn = "encode_input"
     /\ fcall.abi.types = <<>> /\ fcall.abi.args = <<>>)
  => /\ fret.raised = NoRaise
     /\ Len(fret.value) = 4
     /\ fret.value = func_selector(fcall.name)
     /\ (fcall.name = <<110, 97, 109, 101, 40, 41>> => fret.value = <<6, 253, 222, 3>>)

C2_Witness ==
  /\ pc = "return"
  /\ fcall.fn = "encode_input"
  /\ fcall.name = <<110, 97, 109, 101, 40, 41>>
  /\ fcall.abi.types = <<>>
  /\ fret.value = <<6, 253, 222, 3>>

\* n < 2^160: at most ten 16-bit limbs
Below2Pow160(num) == Len(num) <= 10

WellFormedAddress(t) ==
  /\ Len(t) = 42
  /\ t[1] = 48 /\ t[2] = 120
  /\ \A k \in 3..42 : IsHexChar(t[k])

\* C3: for 0 <= n < 2^160, num_to_address(n) is a 42-character text, "0x" and
\* 40 hex digits, whose lowercased digits are the hex digits of n padded on
\* the left with '0'; for 2050 they are 37 zeros and 802.
C3_AddressOfNumber ==
  (pc = "return" /\ fcall.fn = "num_to_address" /\ Below2Pow160(fcall.num))
  => /\ fret.raised = NoRaise
     /\ WellFormedAddress(fret.value)
     /\ \A k \in 0..39 :
          lower(fret.value)[42 - k] = HexChar(Nibble(fcall.num, k))
     /\ (fcall.num = <<2050>>
           => lower(fret.value) = <<48, 120>> \o [k \in 1..37 |-> 48]
                                    \o <<56, 48, 50>>)

C3_Witness ==
  /\ pc = "return"
  /\ fcall.fn = "num_to_address"
  /\ fcall.num = <<2050>>
  /\ fret.value = <<48, 120, 48, 48, 48, 48, 48, 48, 48, 48, 48, 48, 48, 48, 48, 48, 48, 48, 48, 48, 48, 48, 48, 48, 48, 48, 48, 48, 48, 48, 48, 48, 48, 48, 48, 48, 48, 48, 48, 56, 48, 50>>

\* C4: for a non-empty signature text s, func_selector(s) is exactly four
\* bytes, the first four of keccak(s) (06 fd de 03 for "name()", 95 d8 9b 41
\* for "symbol()", 70 a0 82 31 for "balanceOf(address)").
C4_SelectorIsFirstFourBytes ==
  (pc = "return" /\ fcall.fn = "func_selector" /\ Len(fcall.text) > 0)
  => /\ Len(fret.value) = 4
     /\ fret.value = SubSeq(keccak(fcall.text), 1, 4)
     /\ (fcall.text = <<110, 97, 109, 101, 40, 41>> => fret.value = <<6, 253, 222, 3>>)
     /\ (fcall.text = <<115, 121, 109, 98, 111, 108, 40, 41>> => fret.value = <<149, 216, 155, 65>>)
     /\ (fcall.text = <<98, 97, 108, 97, 110, 99, 101, 79, 102, 40, 97, 100, 100, 114, 101, 115, 115, 41>> => fret.value = <<112, 160, 130, 49>>)

C4_Witness ==
  /\ pc = "return"
  /\ fcall.fn = "func_selector"
  /\ fcall.text = <<98, 97, 108, 97, 110, 99, 101, 79, 102, 40, 97, 100, 100, 114, 101, 115, 115, 41>>
  /\ fret.value = <<112, 160, 130, 49>>

EvmCallArgNames ==
  {"source", "target", "input", "value", "gas_limit", "max_fee_per_gas",
   "max_priority_fee_per_gas", "nonce", "access_list"}

C7_FailureTerminates ==
  (raised # NoRaise)
  => /\ pc = "terminated"
     /\ ~ENABLED Next
     /\ Count(rpc_log, "connect") <= 1
     /\ stdout = <<>>
     /\ (~interface.bound => ~alith_keypair.bound /\ ~input.bound
                             /\ encode_log = <<>>)
     /\ (raised = "ConnectionRefusedError"
           => ~interface.bound /\ rpc_log = <<"connect">>)
     /\ (raised = "SubstrateRequestException" => encode_log = <<>>)
     /\ (raised \in {"ValueError", "NotImplementedError"}
           => input.bound /\ Len(encode_log) = 1)

C7_Witness ==
  /\ raised = "ConnectionRefusedError"
  /\ pc = "terminated"
  /\ rpc_log = <<"connect">>
  /\ CONTRACT_ADDRESS.bound

\* C8 as stated: the interface is initialized first, and only then are the
\* contract address and the keypair derived, the input built and the call
\* built and printed.
C8_InterfaceInitializedFirst ==
  /\ CONTRACT_ADDRESS.bound => interface.bound
  /\ alith_keypair.bound => interface.bound
  /\ input.bound => CONTRACT_ADDRESS.bound /\ alith_keypair.bound
  /\ encode_log # <<>> => input.bound
  /\ stdout # <<>> => encode_log # <<>>

\* C8, amended: the contract address is derived first, then the interface is
\* initialized, then the keypair is derived, then the input for name() is
\* built, then the call is built and printed; nothing is sent to the node
\* before the address is derived.
C8_AddressDerivedFirst ==
  /\ (interface.bound \/ rpc_log # <<>>) => CONTRACT_ADDRESS.bound
  /\ alith_keypair.bound => interface.bound
  /\ input.bound => alith_keypair.bound
  /\ input.bound => input.value = <<6, 253, 222, 3>>
  /\ encode_log # <<>> => input.bound
  /\ stdout # <<>> => encode_log # <<>>
  /\ pc = "exit" => Len(stdout) = 1

C8_Witness ==
  /\ pc = "line138"
  /\ CONTRACT_ADDRESS.bound
  /\ ~interface.bound
  /\ rpc_log = <<>>

\* C9: for n >= 2^160, num_to_address(n) fails or returns a text that is not
\* "0x" and 40 hex digits: n is never turned into the address of another
\* number.
C9_TooLargeNumberGivesNoAddress ==
  (pc = "return" /\ fcall.fn = "num_to_address" /\ ~Below2Pow160(fcall.num))
  => (fret.raised # NoRaise \/ ~WellFormedAddress(fret.value))

C9_Witness ==
  /\ pc = "return"
  /\ fcall.fn = "num_to_address"
  /\ fcall.num = <<0, 0, 0, 0, 0, 0, 0, 0, 0, 0, 1>>
  /\ fret.raised = "ValueError"

FieldNames(struct) ==
  [k \in 1..Len(struct.type_mapping) |-> struct.type_mapping[k][1]] \o <<>>

RegistryAsInitialized(reg) ==
  /\ \A n \in {"Address", "LookupSource", "AccountId"} :
       Resolve(reg, n) = "H160"
  /\ reg["H160"] = Builtin("H160")
  /\ \A n \in {"Account", "Transaction", "Signature"} : reg[n].type = "struct"
  /\ FieldNames(reg["Account"]) = <<"nonce", "balance">>
  /\ FieldNames(reg["Transaction"])
       = <<"nonce", "gas_price", "gas_limit", "action", "value", "input",
           "signature">>
  /\ FieldNames(reg["Signature"]) = <<"v", "r", "s">>

====
